---- MODULE Spec2Model ----
(***************************************************************************)
(* Model of src/src/main.rs: VulkanApp::new (setup), VulkanApp::run /       *)
(* draw_frame (the frame loop with MAX_FRAMES_IN_FLIGHT frames in flight)   *)
(* and Drop for VulkanApp (teardown), together with the part of the GPU    *)
(* and of the presentation engine that the fences and semaphores of the    *)
(* frame loop observe.                                                      *)
(***************************************************************************)
EXTENDS Integers, Sequences, FiniteSets, TLC

\* src/src/main.rs:71
MAX_FRAMES_IN_FLIGHT == 2

\* Bounds of the model (not program constants).
MaxImages == 3      \* largest number of swapchain images the driver hands out
MaxTicks == 4       \* number of draw_frame calls explored
SemCap == 2         \* largest number of unconsumed signals kept on a semaphore
MaxFamilies == 2    \* largest number of queue families of a physical device
MaxExtensions == 2  \* largest number of extensions a physical device lists
MaxSupport == 1     \* largest number of formats / present modes of a device
MaxDevices == 4     \* largest number of enumerated physical devices
MaxSupported == 3   \* largest number of instance extensions the loader lists
MaxLayers == 2      \* largest number of instance layers the loader lists
MaxChoices == 3     \* largest number of formats / present modes to choose from
UMax == 3           \* stands for u32::MAX: unsigned values range over 0 .. UMax
MaxBytes == 8       \* largest length of a shader file, in bytes

VARIABLES
    pc,                 \* position of the control thread
    created,            \* live handles, in creation order
    destroyed,          \* handles destroyed by Drop, in destruction order
    swapchain_images,   \* number of swapchain images (0 before retrieval)
    command_buffers,    \* number of allocated command buffers
    current_frame,      \* VulkanApp.current_frame
    image_index,        \* draw_frame's local image_index
    images_in_flight,   \* VulkanApp.images_in_flight: image -> slot of a fence, or Null
    fence,              \* in_flight_fences[k] is signaled
    sem,                \* unconsumed signals on each semaphore
    graphics_queue,     \* submissions not yet completed by the GPU
    present_queue,      \* present requests not yet executed
    acquires,           \* acquire operations whose semaphore signal is outstanding
    ticks,              \* draw_frame calls begun
    completed,          \* draw_frame calls that returned Ok
    rendered,           \* ticks whose submission the GPU has completed
    presented,          \* ticks whose present request has executed
    calls,              \* API calls of the current draw_frame, in order
    image_ready,        \* the presentation engine has an image to hand out
    call                \* a call of a selection function: name, input, result

vars == <<pc, created, destroyed, swapchain_images, command_buffers,
          current_frame, image_index, images_in_flight, fence, sem,
          graphics_queue, present_queue, acquires, ticks, completed,
          rendered, presented, calls, image_ready, call>>

Null == -1
Slots == 0 .. (MAX_FRAMES_IN_FLIGHT - 1)
Images == 0 .. (swapchain_images - 1)

Obj(kind, idx) == [kind |-> kind, idx |-> idx]
Call(op, arg) == [op |-> op, arg |-> arg]

RECURSIVE Reverse(_)
Reverse(s) == IF s = <<>> THEN <<>> ELSE Append(Reverse(Tail(s)), Head(s))

RECURSIVE Concat(_)
Concat(ss) == IF ss = <<>> THEN <<>> ELSE Head(ss) \o Concat(Tail(ss))

RemoveAt(s, i) == [j \in 1 .. (Len(s) - 1) |-> IF j < i THEN s[j] ELSE s[j + 1]]

Range(s) == {s[i] : i \in DOMAIN s}

SetupPcs == {"init_window", "create_instance", "create_surface",
             "setup_debug_messenger", "pick_physical_device",
             "find_queue_families", "create_logical_device",
             "create_swapchain", "get_swapchain_images", "create_image_views",
             "create_render_pass", "create_graphics_pipeline",
             "create_frame_buffers", "create_command_pool",
             "create_command_buffers", "create_sync_objects"}

\* No selection function is being examined.
NoCall == [fn |-> "none", in |-> <<>>, out |-> <<>>, done |-> FALSE]

\* The state before new() has created anything.
NothingCreated ==
    /\ created = <<>>
    /\ destroyed = <<>>
    /\ swapchain_images = 0
    /\ command_buffers = 0
    /\ current_frame = 0
    /\ image_index = Null
    /\ images_in_flight = <<>>
    /\ fence = <<>>
    /\ sem = <<>>
    /\ graphics_queue = <<>>
    /\ present_queue = <<>>
    /\ acquires = {}
    /\ ticks = 0
    /\ completed = 0
    /\ rendered = {}
    /\ presented = {}
    /\ calls = <<>>
    /\ image_ready = FALSE

Init ==
    /\ pc = "init_window"
    /\ NothingCreated
    /\ call = NoCall

(***************************************************************************)
(* Setup: VulkanApp::new                                                    *)
(***************************************************************************)
gpuVars == <<fence, sem, graphics_queue, present_queue, acquires, rendered,
            presented>>
loopVars == <<current_frame, image_index, images_in_flight, ticks, completed, calls>>
otherVars == <<image_ready, call>>

\* One step of new() that creates the handles objs and goes on to next.
SetupStep(at, objs, next) ==
    /\ pc = at
    /\ pc' = next
    /\ created' = created \o objs
    /\ UNCHANGED <<destroyed, swapchain_images, command_buffers>>
    /\ UNCHANGED gpuVars
    /\ UNCHANGED loopVars
    /\ UNCHANGED otherVars

init_window == SetupStep("init_window", <<>>, "create_instance")

create_instance ==
    SetupStep("create_instance", <<Obj("instance", 0)>>, "create_surface")

create_surface ==
    SetupStep("create_surface", <<Obj("surface", 0)>>, "setup_debug_messenger")

\* enable_validation_layer is the constant true (line 126), so a messenger
\* is always created.
setup_debug_messenger ==
    SetupStep("setup_debug_messenger", <<Obj("debug_messenger", 0)>>,
              "pick_physical_device")

pick_physical_device ==
    SetupStep("pick_physical_device", <<>>, "find_queue_families")

find_queue_families ==
    SetupStep("find_queue_families", <<>>, "create_logical_device")

create_logical_device ==
    SetupStep("create_logical_device", <<Obj("device", 0)>>, "create_swapchain")

create_swapchain ==
    SetupStep("create_swapchain", <<Obj("swapchain", 0)>>, "get_swapchain_images")

\* The driver decides how many images the swapchain has.
get_swapchain_images ==
    /\ pc = "get_swapchain_images"
    /\ \E n \in 2 .. MaxImages : swapchain_images' = n
    /\ pc' = "create_image_views"
    /\ UNCHANGED <<created, destroyed, command_buffers>>
    /\ UNCHANGED gpuVars
    /\ UNCHANGED loopVars
    /\ UNCHANGED otherVars

create_image_views ==
    SetupStep("create_image_views",
              [i \in 1 .. swapchain_images |-> Obj("image_view", i - 1)],
              "create_render_pass")

create_render_pass ==
    SetupStep("create_render_pass", <<Obj("render_pass", 0)>>,
              "create_graphics_pipeline")

\* The two shader modules are created and destroyed again inside
\* create_graphics_pipeline (lines 538-539, 649-652); the handles that
\* outlive it are the pipeline layout and the pipeline, created in this order.
create_graphics_pipeline ==
    SetupStep("create_graphics_pipeline",
              <<Obj("pipeline_layout", 0), Obj("pipeline", 0)>>,
              "create_frame_buffers")

create_frame_buffers ==
    SetupStep("create_frame_buffers",
              [i \in 1 .. swapchain_images |-> Obj("framebuffer", i - 1)],
              "create_command_pool")

create_command_pool ==
    SetupStep("create_command_pool", <<Obj("command_pool", 0)>>,
              "create_command_buffers")

\* Faulty variant: one command buffer per frame slot.
create_command_buffers_PerSlot ==
    /\ pc = "create_command_buffers"
    /\ command_buffers' = MAX_FRAMES_IN_FLIGHT
    /\ pc' = "create_sync_objects"
    /\ UNCHANGED <<created, destroyed, swapchain_images>>
    /\ UNCHANGED gpuVars
    /\ UNCHANGED loopVars
    /\ UNCHANGED otherVars

\* One command buffer per framebuffer, allocated from the pool.
create_command_buffers ==
    /\ pc = "create_command_buffers"
    /\ command_buffers' =
           Cardinality({o \in Range(created) : o.kind = "framebuffer"})
    /\ pc' = "create_sync_objects"
    /\ UNCHANGED <<created, destroyed, swapchain_images>>
    /\ UNCHANGED gpuVars
    /\ UNCHANGED loopVars
    /\ UNCHANGED otherVars

\* Faulty variant: the fences are created without the SIGNALED flag.
fence_create_unsignaled == FALSE

\* vk::FenceCreateFlags::SIGNALED (line 338)
fence_create_signaled == TRUE

SyncObjectsOf(k) ==
    <<Obj("image_available", k), Obj("render_finished", k), Obj("fence", k)>>

\* create_sync_objects followed by the construction of the VulkanApp value
\* (current_frame: 0).
create_sync_objects ==
    /\ pc = "create_sync_objects"
    /\ created' = created \o
           Concat([k \in 1 .. MAX_FRAMES_IN_FLIGHT |-> SyncObjectsOf(k - 1)])
    /\ images_in_flight' = [i \in Images |-> Null]
    /\ fence' = [k \in Slots |-> fence_create_signaled]
    /\ sem' = [s \in {Obj(kd, k) : kd \in {"image_available", "render_finished"},
                                   k \in Slots} |-> 0]
    /\ current_frame' = 0
    /\ pc' = "run"
    /\ UNCHANGED <<destroyed, swapchain_images, command_buffers, image_index,
                   graphics_queue, present_queue, acquires, ticks, completed,
                   rendered, presented, calls>>
    /\ UNCHANGED otherVars

\* Faulty variant: the failure of a step runs the teardown of the partly
\* built application.
SetupErr_Unwinds ==
    /\ pc \in SetupPcs
    /\ pc' = "drop_wait"
    /\ UNCHANGED <<created, destroyed, swapchain_images, command_buffers>>
    /\ UNCHANGED gpuVars
    /\ UNCHANGED loopVars
    /\ UNCHANGED otherVars

\* Any step of new() may return an error; `?` propagates it out of new() and
\* main, and no VulkanApp value exists, so Drop never runs.
SetupErr ==
    /\ pc \in SetupPcs
    /\ pc' = "setup_failed"
    /\ UNCHANGED <<created, destroyed, swapchain_images, command_buffers>>
    /\ UNCHANGED gpuVars
    /\ UNCHANGED loopVars
    /\ UNCHANGED otherVars

Setup ==
    \/ init_window
    \/ create_instance
    \/ create_surface
    \/ setup_debug_messenger
    \/ pick_physical_device
    \/ find_queue_families
    \/ create_logical_device
    \/ create_swapchain
    \/ get_swapchain_images
    \/ create_image_views
    \/ create_render_pass
    \/ create_graphics_pipeline
    \/ create_frame_buffers
    \/ create_command_pool
    \/ create_command_buffers
    \/ create_sync_objects
    \/ SetupErr

(***************************************************************************)
(* The GPU and the presentation engine, as far as fences and semaphores     *)
(* show them.  A submission executes once its wait semaphore is signaled;   *)
(* on completion it signals its signal semaphore and its fence.  Present    *)
(* requests of a queue are processed in issue order, each once its wait     *)
(* semaphore is signaled.  An acquire may hand out the index of an image    *)
(* whose earlier present requests are still queued; its semaphore is        *)
(* signaled when the presentation engine has released the image.            *)
(***************************************************************************)
Min(a, b) == IF a < b THEN a ELSE b

\* Signalling a binary semaphore that already holds a signal is invalid
\* usage: the signal is either lost or kept.
SignalValues(v) == IF v = 0 THEN {1} ELSE {v, Min(v + 1, SemCap)}

setupVars == <<created, destroyed, swapchain_images, command_buffers>>

\* The presentation engine releases the acquired image: the semaphore handed
\* to acquire_next_image is signaled.
AcquireSignal ==
    /\ \E a \in acquires :
         /\ a.ahead = 0
         /\ \E v \in SignalValues(sem[a.sem]) : sem' = [sem EXCEPT ![a.sem] = v]
         /\ acquires' = acquires \ {a}
    /\ UNCHANGED <<pc, fence, graphics_queue, present_queue, rendered, presented>>
    /\ UNCHANGED setupVars
    /\ UNCHANGED loopVars
    /\ UNCHANGED otherVars

\* The GPU executes and completes a submission of the graphics queue.
GpuComplete ==
    /\ \E i \in DOMAIN graphics_queue :
         LET s == graphics_queue[i]
             waited == [sem EXCEPT ![s.wait] = @ - 1]
         IN  /\ sem[s.wait] >= 1
             /\ \E v \in SignalValues(waited[s.signal]) :
                    sem' = [waited EXCEPT ![s.signal] = v]
             /\ fence' = [fence EXCEPT ![s.fence] = TRUE]
             /\ graphics_queue' = RemoveAt(graphics_queue, i)
             /\ rendered' = rendered \cup {s.tick}
    /\ UNCHANGED <<pc, present_queue, acquires, presented>>
    /\ UNCHANGED setupVars
    /\ UNCHANGED loopVars
    /\ UNCHANGED otherVars

\* The presentation engine executes the oldest present request.
PresentExecute ==
    /\ present_queue # <<>>
    /\ LET p == Head(present_queue)
       IN  /\ sem[p.wait] >= 1
           /\ sem' = [sem EXCEPT ![p.wait] = @ - 1]
           /\ presented' = presented \cup {p.tick}
           /\ acquires' = {IF a.image = p.image /\ a.ahead > 0
                           THEN [a EXCEPT !.ahead = @ - 1] ELSE a : a \in acquires}
    /\ present_queue' = Tail(present_queue)
    /\ UNCHANGED <<pc, fence, graphics_queue, rendered>>
    /\ UNCHANGED setupVars
    /\ UNCHANGED loopVars
    /\ UNCHANGED otherVars

\* The presentation engine gets an image ready to be acquired (in FIFO mode,
\* say, at the next vertical blank).
ImageRelease ==
    /\ Obj("swapchain", 0) \in Range(created)
    /\ Obj("swapchain", 0) \notin Range(destroyed)
    /\ ~image_ready
    /\ image_ready' = TRUE
    /\ UNCHANGED <<pc, call>>
    /\ UNCHANGED setupVars
    /\ UNCHANGED loopVars
    /\ UNCHANGED gpuVars

Gpu == AcquireSignal \/ GpuComplete \/ PresentExecute \/ ImageRelease

(***************************************************************************)
(* The frame loop: VulkanApp::run and VulkanApp::draw_frame                 *)
(***************************************************************************)
\* Faulty variant: the event loop is entered whether or not new() succeeded.
MainEventsCleared_AfterFailedSetup ==
    /\ pc \in {"run", "setup_failed"}
    /\ ticks < MaxTicks
    /\ ticks' = ticks + 1
    /\ calls' = <<>>
    /\ image_index' = Null
    /\ pc' = "wait_fence"
    /\ UNCHANGED <<current_frame, images_in_flight, completed>>
    /\ UNCHANGED setupVars
    /\ UNCHANGED gpuVars
    /\ UNCHANGED otherVars

\* Event::MainEventsCleared: run calls draw_frame.
MainEventsCleared ==
    /\ pc = "run"
    /\ ticks < MaxTicks
    /\ ticks' = ticks + 1
    /\ calls' = <<>>
    /\ image_index' = Null
    /\ pc' = "wait_fence"
    /\ UNCHANGED <<current_frame, images_in_flight, completed>>
    /\ UNCHANGED setupVars
    /\ UNCHANGED gpuVars
    /\ UNCHANGED otherVars

\* Faulty variant: draw_frame does not wait for the slot's fence.
WaitForSlotFence_Skipped ==
    /\ pc = "wait_fence"
    /\ pc' = "acquire"
    /\ UNCHANGED loopVars
    /\ UNCHANGED setupVars
    /\ UNCHANGED gpuVars
    /\ UNCHANGED otherVars

\* Faulty variant: the slot's fence is reset as soon as it has been waited on.
WaitForSlotFence_ResetsAtOnce ==
    /\ pc = "wait_fence"
    /\ fence[current_frame]
    /\ fence' = [fence EXCEPT ![current_frame] = FALSE]
    /\ calls' = Append(calls, Call("wait_for_fences", current_frame))
    /\ pc' = "acquire"
    /\ UNCHANGED <<current_frame, image_index, images_in_flight, ticks, completed>>
    /\ UNCHANGED <<sem, graphics_queue, present_queue, acquires, rendered, presented>>
    /\ UNCHANGED setupVars
    /\ UNCHANGED otherVars

\* wait_for_fences(&current_fence, true, u64::MAX) returns once the slot's
\* fence is signaled.
WaitForSlotFence ==
    /\ pc = "wait_fence"
    /\ fence[current_frame]
    /\ calls' = Append(calls, Call("wait_for_fences", current_frame))
    /\ pc' = "acquire"
    /\ UNCHANGED <<current_frame, image_index, images_in_flight, ticks, completed>>
    /\ UNCHANGED setupVars
    /\ UNCHANGED gpuVars
    /\ UNCHANGED otherVars

\* Faulty variant: the image is marked as in flight when it is acquired.
AcquireNextImage_MarksImage ==
    /\ pc = "acquire"
    /\ image_ready
    /\ image_ready' = FALSE
    /\ UNCHANGED call
    /\ \E i \in Images :
         /\ image_index' = i
         /\ images_in_flight' = [images_in_flight EXCEPT ![i] = current_frame]
         /\ acquires' = acquires \cup
              {[sem |-> Obj("image_available", current_frame), image |-> i,
                tick |-> ticks,
                ahead |-> Cardinality({j \in DOMAIN present_queue :
                                          present_queue[j].image = i})]}
    /\ calls' = Append(calls, Call("acquire_next_image", current_frame))
    /\ pc' = "wait_image"
    /\ UNCHANGED <<current_frame, ticks, completed>>
    /\ UNCHANGED <<fence, sem, graphics_queue, present_queue, rendered, presented>>
    /\ UNCHANGED setupVars

\* acquire_next_image(swapchain, u64::MAX, image_available, null fence): with
\* the infinite timeout the call returns only once the presentation engine
\* has an image to hand out; the image index is the engine's choice.
AcquireNextImage ==
    /\ pc = "acquire"
    /\ image_ready
    /\ image_ready' = FALSE
    /\ UNCHANGED call
    /\ \E i \in Images :
         /\ image_index' = i
         /\ acquires' = acquires \cup
              {[sem |-> Obj("image_available", current_frame), image |-> i,
                tick |-> ticks,
                ahead |-> Cardinality({j \in DOMAIN present_queue :
                                          present_queue[j].image = i})]}
    /\ calls' = Append(calls, Call("acquire_next_image", current_frame))
    /\ pc' = "wait_image"
    /\ UNCHANGED <<current_frame, images_in_flight, ticks, completed>>
    /\ UNCHANGED <<fence, sem, graphics_queue, present_queue, rendered, presented>>
    /\ UNCHANGED setupVars

\* Faulty variant: draw_frame does not wait for the fence that owns the image.
WaitForImageFence_Skipped ==
    /\ pc = "wait_image"
    /\ pc' = "submit"
    /\ UNCHANGED loopVars
    /\ UNCHANGED setupVars
    /\ UNCHANGED gpuVars
    /\ UNCHANGED otherVars

\* If images_in_flight[image_index] is not null, wait for that fence too.
WaitForImageFence ==
    /\ pc = "wait_image"
    /\ LET f == images_in_flight[image_index]
       IN  \/ /\ f = Null
              /\ calls' = calls
           \/ /\ f # Null
              /\ fence[f]
              /\ calls' = Append(calls, Call("wait_for_fences", f))
    /\ pc' = "submit"
    /\ UNCHANGED <<current_frame, image_index, images_in_flight, ticks, completed>>
    /\ UNCHANGED setupVars
    /\ UNCHANGED gpuVars
    /\ UNCHANGED otherVars

wait_semaphores == Obj("image_available", current_frame)

signal_semaphores == Obj("render_finished", current_frame)

\* Faulty variant: images_in_flight is indexed by the frame slot.
SubmitFrame_IndexedBySlot ==
    /\ pc = "submit"
    /\ images_in_flight' = [images_in_flight EXCEPT ![current_frame] = current_frame]
    /\ fence' = [fence EXCEPT ![current_frame] = FALSE]
    /\ graphics_queue' = Append(graphics_queue,
           [wait |-> Obj("image_available", current_frame),
            signal |-> Obj("render_finished", current_frame),
            fence |-> current_frame, image |-> image_index, tick |-> ticks])
    /\ calls' = calls \o <<Call("reset_fences", current_frame),
                           Call("queue_submit", current_frame)>>
    /\ pc' = "present"
    /\ UNCHANGED <<current_frame, image_index, ticks, completed>>
    /\ UNCHANGED <<sem, present_queue, acquires, rendered, presented>>
    /\ UNCHANGED setupVars
    /\ UNCHANGED otherVars

\* images_in_flight[image_index] = current_fence, then reset_fences and
\* queue_submit of command_buffers[image_index].
SubmitFrame ==
    /\ pc = "submit"
    /\ images_in_flight' = [images_in_flight EXCEPT ![image_index] = current_frame]
    /\ fence' = [fence EXCEPT ![current_frame] = FALSE]
    /\ graphics_queue' = Append(graphics_queue,
           [wait |-> wait_semaphores, signal |-> signal_semaphores,
            fence |-> current_frame, image |-> image_index, tick |-> ticks])
    /\ calls' = calls \o <<Call("reset_fences", current_frame),
                           Call("queue_submit", current_frame)>>
    /\ pc' = "present"
    /\ UNCHANGED <<current_frame, image_index, ticks, completed>>
    /\ UNCHANGED <<sem, present_queue, acquires, rendered, presented>>
    /\ UNCHANGED setupVars
    /\ UNCHANGED otherVars

\* Faulty variant: the present request waits on the image_available semaphore.
present_wait_image_available == wait_semaphores

\* The semaphore the present request waits on (present_info, line 313).
present_wait_semaphores == signal_semaphores

\* Faulty variant: the slot index wraps one too late.
NextFrame_OffByOne(cf) == (cf + 1) % (MAX_FRAMES_IN_FLIGHT + 1)

NextFrame(cf) == (cf + 1) % MAX_FRAMES_IN_FLIGHT

\* Faulty variant: the graphics queue is waited idle before the present
\* request is queued.
PresentFrame_QueueWaitIdle ==
    /\ pc = "present"
    /\ graphics_queue = <<>>
    /\ present_queue' = Append(present_queue,
           [wait |-> signal_semaphores, image |-> image_index, tick |-> ticks])
    /\ calls' = Append(calls, Call("queue_present", current_frame))
    /\ current_frame' = (current_frame + 1) % MAX_FRAMES_IN_FLIGHT
    /\ completed' = completed + 1
    /\ pc' = "run"
    /\ UNCHANGED <<image_index, images_in_flight, ticks>>
    /\ UNCHANGED <<fence, sem, graphics_queue, acquires, rendered, presented>>
    /\ UNCHANGED setupVars
    /\ UNCHANGED otherVars

\* queue_present of image_index, then the slot index advances and
\* draw_frame returns Ok.
PresentFrame ==
    /\ pc = "present"
    /\ present_queue' = Append(present_queue,
           [wait |-> present_wait_semaphores, image |-> image_index, tick |-> ticks])
    /\ calls' = Append(calls, Call("queue_present", current_frame))
    /\ current_frame' = NextFrame(current_frame)
    /\ completed' = completed + 1
    /\ pc' = "run"
    /\ UNCHANGED <<image_index, images_in_flight, ticks>>
    /\ UNCHANGED <<fence, sem, graphics_queue, acquires, rendered, presented>>
    /\ UNCHANGED setupVars
    /\ UNCHANGED otherVars

\* One of the two fence waits or the acquire returns an error: draw_frame
\* returns it and expect() panics.
WaitOrAcquireErr ==
    /\ pc \in {"wait_fence", "acquire", "wait_image"}
    /\ pc' = "panicked"
    /\ UNCHANGED loopVars
    /\ UNCHANGED setupVars
    /\ UNCHANGED gpuVars
    /\ UNCHANGED otherVars

\* reset_fences returns an error: images_in_flight is already written.
ResetFencesErr ==
    /\ pc = "submit"
    /\ images_in_flight' = [images_in_flight EXCEPT ![image_index] = current_frame]
    /\ pc' = "panicked"
    /\ UNCHANGED <<current_frame, image_index, ticks, completed, calls>>
    /\ UNCHANGED setupVars
    /\ UNCHANGED gpuVars
    /\ UNCHANGED otherVars

\* queue_submit returns an error: the fence is already reset, nothing is queued.
QueueSubmitErr ==
    /\ pc = "submit"
    /\ images_in_flight' = [images_in_flight EXCEPT ![image_index] = current_frame]
    /\ fence' = [fence EXCEPT ![current_frame] = FALSE]
    /\ calls' = Append(calls, Call("reset_fences", current_frame))
    /\ pc' = "panicked"
    /\ UNCHANGED <<current_frame, image_index, ticks, completed>>
    /\ UNCHANGED <<sem, graphics_queue, present_queue, acquires, rendered,
                   presented>>
    /\ UNCHANGED setupVars
    /\ UNCHANGED otherVars

\* queue_present returns an error: the slot index does not advance.
QueuePresentErr ==
    /\ pc = "present"
    /\ pc' = "panicked"
    /\ UNCHANGED loopVars
    /\ UNCHANGED setupVars
    /\ UNCHANGED gpuVars
    /\ UNCHANGED otherVars

\* WindowEvent::CloseRequested: the event loop exits and drops the closure
\* that owns the VulkanApp.
CloseRequested ==
    /\ pc = "run"
    /\ pc' = "drop_wait"
    /\ UNCHANGED loopVars
    /\ UNCHANGED setupVars
    /\ UNCHANGED gpuVars
    /\ UNCHANGED otherVars

\* Faulty variant: the error of draw_frame is dropped and the loop goes on.
PanicUnwind_LoopGoesOn ==
    /\ pc = "panicked"
    /\ pc' = "run"
    /\ UNCHANGED loopVars
    /\ UNCHANGED setupVars
    /\ UNCHANGED gpuVars
    /\ UNCHANGED otherVars

\* The panic unwinds through the event loop and drops the VulkanApp (when
\* the platform aborts instead, the process stays at "panicked").
PanicUnwind ==
    /\ pc = "panicked"
    /\ pc' = "drop_wait"
    /\ UNCHANGED loopVars
    /\ UNCHANGED setupVars
    /\ UNCHANGED gpuVars
    /\ UNCHANGED otherVars

FrameLoop ==
    \/ MainEventsCleared
    \/ WaitForSlotFence
    \/ AcquireNextImage
    \/ WaitForImageFence
    \/ SubmitFrame
    \/ PresentFrame
    \/ WaitOrAcquireErr
    \/ ResetFencesErr
    \/ QueueSubmitErr
    \/ QueuePresentErr
    \/ CloseRequested
    \/ PanicUnwind

(***************************************************************************)
(* Teardown: Drop for VulkanApp                                             *)
(***************************************************************************)
\* All queues of the device have finished their outstanding operations.
DeviceIdle == graphics_queue = <<>> /\ present_queue = <<>>

\* Faulty variant: drop does not wait for the device to be idle.
DeviceWaitIdle_Skipped ==
    /\ pc = "drop_wait"
    /\ pc' = "drop_debug"
    /\ UNCHANGED loopVars
    /\ UNCHANGED setupVars
    /\ UNCHANGED gpuVars
    /\ UNCHANGED otherVars

\* device_wait_idle().unwrap() returns once the device is idle.
DeviceWaitIdle ==
    /\ pc = "drop_wait"
    /\ DeviceIdle
    /\ pc' = "drop_debug"
    /\ UNCHANGED loopVars
    /\ UNCHANGED setupVars
    /\ UNCHANGED gpuVars
    /\ UNCHANGED otherVars

\* device_wait_idle returns an error: unwrap() panics inside drop and no
\* destroy call is made.
DeviceWaitIdleErr ==
    /\ pc = "drop_wait"
    /\ pc' = "drop_panicked"
    /\ UNCHANGED loopVars
    /\ UNCHANGED setupVars
    /\ UNCHANGED gpuVars
    /\ UNCHANGED otherVars

\* The handles of one kind, in the order of the Vec that holds them.
HandlesOf(kind) ==
    LET idx == {i \in DOMAIN created : created[i].kind = kind}
    IN  [n \in 1 .. Cardinality(idx) |-> Obj(kind, n - 1)]

\* One statement (or loop) of drop that destroys the handles objs.
DropStep(at, objs, next) ==
    /\ pc = at
    /\ pc' = next
    /\ destroyed' = destroyed \o objs
    /\ UNCHANGED <<created, swapchain_images, command_buffers>>
    /\ UNCHANGED loopVars
    /\ UNCHANGED gpuVars
    /\ UNCHANGED otherVars

destroy_debug_utils_messenger ==
    DropStep("drop_debug", HandlesOf("debug_messenger"), "drop_sync")

\* for i in 0..MAX_FRAMES_IN_FLIGHT: both semaphores, then the fence.
destroy_sync_objects ==
    DropStep("drop_sync",
             Concat([k \in 1 .. MAX_FRAMES_IN_FLIGHT |-> SyncObjectsOf(k - 1)]),
             "drop_framebuffers")

destroy_framebuffers ==
    DropStep("drop_framebuffers", HandlesOf("framebuffer"), "drop_image_views")

destroy_image_views ==
    DropStep("drop_image_views", HandlesOf("image_view"), "drop_pipeline")

destroy_pipeline ==
    DropStep("drop_pipeline", <<Obj("pipeline", 0)>>, "drop_command_pool")

\* Destroying the pool frees the command buffers allocated from it.
destroy_command_pool ==
    /\ pc = "drop_command_pool"
    /\ pc' = "drop_pipeline_layout"
    /\ destroyed' = Append(destroyed, Obj("command_pool", 0))
    /\ command_buffers' = 0
    /\ UNCHANGED <<created, swapchain_images>>
    /\ UNCHANGED loopVars
    /\ UNCHANGED gpuVars
    /\ UNCHANGED otherVars

\* Faulty variant: the pipeline handle is passed instead of the layout.
destroy_pipeline_layout_WrongHandle ==
    DropStep("drop_pipeline_layout", <<Obj("pipeline", 0)>>, "drop_render_pass")

destroy_pipeline_layout ==
    DropStep("drop_pipeline_layout", <<Obj("pipeline_layout", 0)>>,
             "drop_render_pass")

destroy_render_pass ==
    DropStep("drop_render_pass", <<Obj("render_pass", 0)>>, "drop_device")

destroy_device ==
    DropStep("drop_device", <<Obj("device", 0)>>, "drop_surface")

destroy_surface ==
    DropStep("drop_surface", <<Obj("surface", 0)>>, "drop_swapchain")

destroy_swapchain ==
    DropStep("drop_swapchain", <<Obj("swapchain", 0)>>, "drop_instance")

destroy_instance ==
    DropStep("drop_instance", <<Obj("instance", 0)>>, "dropped")

Teardown ==
    \/ DeviceWaitIdle
    \/ DeviceWaitIdleErr
    \/ destroy_debug_utils_messenger
    \/ destroy_sync_objects
    \/ destroy_framebuffers
    \/ destroy_image_views
    \/ destroy_pipeline
    \/ destroy_command_pool
    \/ destroy_pipeline_layout
    \/ destroy_render_pass
    \/ destroy_device
    \/ destroy_surface
    \/ destroy_swapchain
    \/ destroy_instance

Next == Setup \/ Gpu \/ FrameLoop \/ Teardown

Spec == Init /\ [][Next]_vars

(***************************************************************************)
(* The selection functions of setup, as functions of what the driver        *)
(* reports.  SelectSpec draws an input for one of them and applies it.      *)
(***************************************************************************)
None == Null

SeqsUpTo(S, n) == UNION {[1 .. k -> S] : k \in 0 .. n}

\* A queue family: does it have the GRAPHICS flag, and does
\* get_physical_device_surface_support report true for it.
QueueFamilies == [graphics : BOOLEAN, surface : BOOLEAN]

\* DEVICE_EXTENSIONS (lines 65-66) and another extension a device may list.
DEVICE_EXTENSIONS == {"VK_KHR_swapchain"}
ExtensionNames == DEVICE_EXTENSIONS \cup {"VK_KHR_maintenance1"}

\* Surface formats and present modes a device may report.
SurfaceFormats ==
    [format : {"B8G8R8A8_SRGB", "R8G8B8A8_UNORM"},
     color_space : {"SRGB_NONLINEAR", "EXTENDED_SRGB_LINEAR"}]
PresentModes == {"IMMEDIATE", "MAILBOX", "FIFO", "FIFO_RELAXED"}

\* What the driver reports about one physical device.
PhysicalDevices ==
    [families : SeqsUpTo(QueueFamilies, MaxFamilies),
     extensions : SeqsUpTo(ExtensionNames, MaxExtensions),
     formats : SeqsUpTo({f \in SurfaceFormats : f.color_space = "SRGB_NONLINEAR"},
                        MaxSupport),
     present_modes : SeqsUpTo({"FIFO", "MAILBOX"}, MaxSupport)]

\* Faulty variant: one of the two families is enough.
is_complete_either(indices) ==
    indices.graphics_family # None \/ indices.presentation_family # None

\* QueueFamilyIndices::is_complete
is_complete(indices) ==
    indices.graphics_family # None /\ indices.presentation_family # None

\* Faulty variant: the index of a role is kept once it is set (the first
\* qualifying family wins).
RECURSIVE ScanFamilies_FirstMatch(_, _, _)
ScanFamilies_FirstMatch(families, index, indices) ==
    IF index >= Len(families) THEN indices
    ELSE LET family == families[index + 1]
             g == IF family.graphics /\ indices.graphics_family = None
                  THEN [indices EXCEPT !.graphics_family = index]
                  ELSE indices
             p == IF family.surface /\ indices.presentation_family = None
                  THEN [g EXCEPT !.presentation_family = index]
                  ELSE g
         IN  ScanFamilies_FirstMatch(families, index + 1, p)

\* The loop of find_queue_families from family `index` on: every family
\* that qualifies for a role overwrites the index kept for that role.
RECURSIVE ScanFamilies(_, _, _)
ScanFamilies(families, index, indices) ==
    IF index >= Len(families) THEN indices
    ELSE LET family == families[index + 1]
             g == IF family.graphics
                  THEN [indices EXCEPT !.graphics_family = index]
                  ELSE indices
             p == IF family.surface
                  THEN [g EXCEPT !.presentation_family = index]
                  ELSE g
         IN  ScanFamilies(families, index + 1, p)

FindQueueFamilies(device) ==
    ScanFamilies(device.families, 0,
                 [graphics_family |-> None, presentation_family |-> None])

\* check_device_extension_support: is VK_KHR_swapchain among the listed
\* extensions.
RECURSIVE CheckDeviceExtensionSupport(_)
CheckDeviceExtensionSupport(extensions) ==
    IF extensions = <<>> THEN FALSE
    ELSE IF Head(extensions) = "VK_KHR_swapchain" THEN TRUE
    ELSE CheckDeviceExtensionSupport(Tail(extensions))

IsDeviceSuitable(device) ==
    LET indices == FindQueueFamilies(device)
        extensions_supported == CheckDeviceExtensionSupport(device.extensions)
        swapchain_support ==
            IF extensions_supported
            THEN device.formats # <<>> /\ device.present_modes # <<>>
            ELSE FALSE
    IN  is_complete(indices) /\ swapchain_support

\* Faulty variant: the scan keeps the last suitable device.
RECURSIVE FindSuitable_Last(_, _)
FindSuitable_Last(devices, i) ==
    IF i > Len(devices) THEN 0
    ELSE LET later == FindSuitable_Last(devices, i + 1)
         IN  IF later # 0 THEN later
             ELSE IF IsDeviceSuitable(devices[i]) THEN i ELSE 0

\* Iterator::find over the enumerated devices from position i on: the
\* position of the first device is_device_suitable accepts, 0 when none.
RECURSIVE FindSuitable(_, _)
FindSuitable(devices, i) ==
    IF i > Len(devices) THEN 0
    ELSE IF IsDeviceSuitable(devices[i]) THEN i
    ELSE FindSuitable(devices, i + 1)

\* pick_physical_device: Ok(device) or the error of bail!.
PickPhysicalDevice(devices) ==
    LET found == FindSuitable(devices, 1)
    IN  IF found # 0
        THEN [ok |-> TRUE, device |-> found, err |-> ""]
        ELSE [ok |-> FALSE, device |-> 0, err |-> "Failed to find suitable device"]

\* Devices used in enumerations: two suitable ones and two that are not.
DeviceSamples ==
    LET both == <<[graphics |-> TRUE, surface |-> TRUE]>>
        split == <<[graphics |-> TRUE, surface |-> FALSE],
                   [graphics |-> FALSE, surface |-> TRUE]>>
        fmt == <<[format |-> "B8G8R8A8_SRGB", color_space |-> "SRGB_NONLINEAR"]>>
    IN  {[families |-> both, extensions |-> <<"VK_KHR_swapchain">>,
          formats |-> fmt, present_modes |-> <<"FIFO">>],
         [families |-> split, extensions |-> <<"VK_KHR_maintenance1", "VK_KHR_swapchain">>,
          formats |-> fmt, present_modes |-> <<"MAILBOX">>],
         [families |-> <<[graphics |-> TRUE, surface |-> FALSE]>>,
          extensions |-> <<"VK_KHR_swapchain">>,
          formats |-> fmt, present_modes |-> <<"FIFO">>],
         [families |-> both, extensions |-> <<"VK_KHR_swapchain">>,
          formats |-> <<>>, present_modes |-> <<"FIFO">>]}

\* Instance extensions: the two the window system asks for on this
\* platform, and the debug-utils extension.
WindowExtensions == <<"VK_KHR_surface", "VK_KHR_xcb_surface">>
InstanceExtensionNames == Range(WindowExtensions) \cup {"VK_EXT_debug_utils"}

VALIDATION_LAYERS == <<"VK_LAYER_KHRONOS_validation">>
LayerNames == Range(VALIDATION_LAYERS) \cup {"VK_LAYER_MESA_overlay"}

Ok == [ok |-> TRUE, err |-> "", name |-> ""]
Err(msg, name) == [ok |-> FALSE, err |-> msg, name |-> name]

get_required_validation_layers(enable_validation_layer) ==
    IF enable_validation_layer THEN VALIDATION_LAYERS ELSE <<>>

get_required_extension(window_extensions, enable_validation_layer) ==
    IF enable_validation_layer
    THEN Append(window_extensions, "VK_EXT_debug_utils")
    ELSE window_extensions

\* check_extension_support: the first required extension that is not among
\* the supported ones ends the check with an error naming it.
RECURSIVE check_extension_support(_, _)
check_extension_support(supported, required) ==
    IF required = <<>> THEN Ok
    ELSE LET req == Head(required)
             in_supported == \E i \in DOMAIN supported : supported[i] = req
         IN  IF ~in_supported
             THEN Err("Required extension is unsupported", req)
             ELSE check_extension_support(supported, Tail(required))

\* Faulty variant: the layers are not checked.
check_validation_layer_support_Skipped(available_layers, layers) == Ok

RECURSIVE check_validation_layer_support(_, _)
check_validation_layer_support(available_layers, layers) ==
    IF layers = <<>> THEN Ok
    ELSE LET req == Head(layers)
             in_supported ==
                 \E i \in DOMAIN available_layers : available_layers[i] = req
         IN  IF ~in_supported
             THEN Err("Required layer is unsupported", req)
             ELSE check_validation_layer_support(available_layers, Tail(layers))

\* The negotiation of create_instance: the extension check, then the layer
\* check; `?` returns the first error, otherwise instance creation follows.
CreateInstance(in) ==
    LET extensions ==
            get_required_extension(in.window_extensions, in.enable_validation_layer)
        checked == check_extension_support(in.supported, extensions)
        validation_layers ==
            get_required_validation_layers(in.enable_validation_layer)
    IN  IF ~checked.ok THEN checked
        ELSE check_validation_layer_support(in.available_layers, validation_layers)

InstanceInputs ==
    [window_extensions : {WindowExtensions},
     enable_validation_layer : BOOLEAN,
     supported : SeqsUpTo(InstanceExtensionNames, MaxSupported),
     available_layers : SeqsUpTo(LayerNames, MaxLayers)]

\* Queue family indices as find_queue_families can return them.
QueueFamilyIndices ==
    [graphics_family : {None} \cup (0 .. MaxFamilies - 1),
     presentation_family : {None} \cup (0 .. MaxFamilies - 1)]

\* Faulty variant: the completeness of the indices is not checked.
CreateLogicalDevice_Unchecked(indices) ==
    [ok |-> TRUE, err |-> "",
     queue_create_info |->
         <<[queue_family_index |-> indices.graphics_family,
            queue_priorities |-> <<1>>],
           [queue_family_index |-> indices.presentation_family,
            queue_priorities |-> <<1>>]>>]

\* create_logical_device up to the DeviceCreateInfo it hands to the driver.
CreateLogicalDevice(indices) ==
    IF ~is_complete(indices)
    THEN [ok |-> FALSE, err |-> "incomplete queue family support",
          queue_create_info |-> <<>>]
    ELSE [ok |-> TRUE, err |-> "",
          queue_create_info |->
              <<[queue_family_index |-> indices.graphics_family,
                 queue_priorities |-> <<1>>],
                [queue_family_index |-> indices.presentation_family,
                 queue_priorities |-> <<1>>]>>]

U32 == 0 .. UMax

\* Faulty variant: the cap is applied even when max_image_count is 0.
SwapchainImageCount_CapAlways(in) ==
    LET sum == in.min_image_count + 1
    IN  IF sum > UMax /\ in.overflow_checks
        THEN [panic |-> TRUE, image_count |-> 0]
        ELSE LET image_count == sum % (UMax + 1)
             IN  [panic |-> FALSE,
                  image_count |-> IF image_count > in.max_image_count
                                  THEN in.max_image_count
                                  ELSE image_count]

\* The image count create_swapchain requests.  min_image_count + 1 is u32
\* arithmetic: past u32::MAX it panics in a build with overflow checks and
\* wraps around in a build without.
SwapchainImageCount(in) ==
    LET max_image_count == in.max_image_count
        sum == in.min_image_count + 1
    IN  IF sum > UMax /\ in.overflow_checks
        THEN [panic |-> TRUE, image_count |-> 0]
        ELSE LET image_count == sum % (UMax + 1)
             IN  [panic |-> FALSE,
                  image_count |-> IF max_image_count > 0 /\ image_count > max_image_count
                                  THEN max_image_count
                                  ELSE image_count]

ImageCountInputs ==
    [min_image_count : U32, max_image_count : U32, overflow_checks : BOOLEAN]

Extent2D(w, h) == [width |-> w, height |-> h]

\* u32::clamp, for min <= max.
clamp(v, min, max) == IF v < min THEN min ELSE IF v > max THEN max ELSE v

\* Faulty variant: the window size is returned without clamping.
ChooseSwapExtent_Unclamped(in) ==
    IF in.current_extent.width # UMax
    THEN in.current_extent
    ELSE Extent2D(in.window_size.width, in.window_size.height)

\* choose_swap_extent
ChooseSwapExtent(in) ==
    IF in.current_extent.width # UMax
    THEN in.current_extent
    ELSE Extent2D(clamp(in.window_size.width,
                        in.min_image_extent.width, in.max_image_extent.width),
                  clamp(in.window_size.height,
                        in.min_image_extent.height, in.max_image_extent.height))

\* The surface reports either the special extent (u32::MAX, u32::MAX) or a
\* concrete one, and minImageExtent <= maxImageExtent in both dimensions.
SpecialExtent == Extent2D(UMax, UMax)
Extents == [width : U32, height : U32]
ExtentInputs ==
    {in \in [current_extent : Extents, min_image_extent : Extents,
             max_image_extent : Extents, window_size : Extents] :
        /\ \/ in.current_extent = SpecialExtent
           \/ in.current_extent.width < UMax /\ in.current_extent.height < UMax
        /\ in.min_image_extent.width <= in.max_image_extent.width
        /\ in.min_image_extent.height <= in.max_image_extent.height}

\* Faulty variant: only the format is compared, not the colour space.
RECURSIVE FindPreferredFormat_FormatOnly(_, _)
FindPreferredFormat_FormatOnly(available_formats, i) ==
    IF i > Len(available_formats) THEN 0
    ELSE IF available_formats[i].format = "B8G8R8A8_SRGB" THEN i
    ELSE FindPreferredFormat_FormatOnly(available_formats, i + 1)

\* The loop of choose_swap_surface_format from position i on: the position
\* of the first preferred entry, 0 when there is none.
RECURSIVE FindPreferredFormat(_, _)
FindPreferredFormat(available_formats, i) ==
    IF i > Len(available_formats) THEN 0
    ELSE LET format == available_formats[i]
         IN  IF /\ format.color_space = "SRGB_NONLINEAR"
                /\ format.format = "B8G8R8A8_SRGB"
             THEN i
             ELSE FindPreferredFormat(available_formats, i + 1)

\* choose_swap_surface_format; .get(0).expect(..) panics on an empty list.
ChooseSwapSurfaceFormat(available_formats) ==
    LET found == FindPreferredFormat(available_formats, 1)
    IN  IF found # 0
        THEN [panic |-> FALSE, position |-> found, format |-> available_formats[found]]
        ELSE IF available_formats = <<>>
        THEN [panic |-> TRUE, position |-> 0, format |-> <<>>]
        ELSE [panic |-> FALSE, position |-> 1, format |-> available_formats[1]]

\* Faulty variant: without MAILBOX the first listed mode is taken.
ChooseSwapPresentMode_FirstListed(available_present_modes) ==
    IF "MAILBOX" \in Range(available_present_modes) THEN "MAILBOX"
    ELSE IF available_present_modes = <<>> THEN "FIFO"
    ELSE Head(available_present_modes)

\* choose_swap_present_mode
RECURSIVE ChooseSwapPresentMode(_)
ChooseSwapPresentMode(available_present_modes) ==
    IF available_present_modes = <<>> THEN "FIFO"
    ELSE IF Head(available_present_modes) = "MAILBOX" THEN "MAILBOX"
    ELSE ChooseSwapPresentMode(Tail(available_present_modes))

\* Faulty variant: the comparison of the two families is inverted.
ImageSharingMode_Inverted(queue_indices) ==
    LET indices == <<queue_indices.graphics_family, queue_indices.presentation_family>>
    IN  IF queue_indices.graphics_family = queue_indices.presentation_family
        THEN [image_sharing_mode |-> "CONCURRENT", queue_family_indices |-> indices]
        ELSE [image_sharing_mode |-> "EXCLUSIVE", queue_family_indices |-> <<>>]

\* The sharing mode create_swapchain puts into the create info.
ImageSharingMode(queue_indices) ==
    LET indices == <<queue_indices.graphics_family, queue_indices.presentation_family>>
    IN  IF queue_indices.graphics_family # queue_indices.presentation_family
        THEN [image_sharing_mode |-> "CONCURRENT", queue_family_indices |-> indices]
        ELSE [image_sharing_mode |-> "EXCLUSIVE", queue_family_indices |-> <<>>]

\* Byte values a shader file is made of here (0x00, 0x01, 0x7f).
Bytes == {0, 1, 127}

\* A shader file: whether std::fs::read finds it, and its content.
ShaderFiles == [exists : BOOLEAN, bytes : SeqsUpTo(Bytes, MaxBytes)]

\* u32::from_le_bytes
from_le_bytes(w) == w[1] + w[2] * 256 + w[3] * 65536 + w[4] * 16777216

\* slice::chunks_exact(4): the full chunks of four, in order; up to three
\* trailing bytes are left out.
chunks_exact(bytes) ==
    [k \in 1 .. (Len(bytes) \div 4) |-> SubSeq(bytes, 4 * k - 3, 4 * k)]

\* create_shader_module up to the create info handed to the driver: the
\* read error is returned by `?`, otherwise the words are passed on.
CreateShaderModule(file) ==
    IF ~file.exists
    THEN [ok |-> FALSE, err |-> "io", code |-> <<>>]
    ELSE LET chunks == chunks_exact(file.bytes)
             bitcode == [k \in DOMAIN chunks |-> from_le_bytes(chunks[k])]
         IN  [ok |-> TRUE, err |-> "", code |-> bitcode]

\* The device part of new(): pick_physical_device, find_queue_families for
\* the picked device, create_logical_device with those indices; `?` returns
\* the error of pick_physical_device.
NewDevice(devices) ==
    LET physical_device == PickPhysicalDevice(devices)
    IN  IF ~physical_device.ok
        THEN [ok |-> FALSE, err |-> physical_device.err, reached |-> FALSE,
              queue_family_indices |-> <<>>, logical_device |-> <<>>]
        ELSE LET queue_family_indices ==
                     FindQueueFamilies(devices[physical_device.device])
                 logical_device == CreateLogicalDevice(queue_family_indices)
             IN  [ok |-> logical_device.ok, err |-> logical_device.err,
                  reached |-> TRUE,
                  queue_family_indices |-> queue_family_indices,
                  logical_device |-> logical_device]

Input(fn, x) == [fn |-> fn, in |-> x, out |-> <<>>, done |-> FALSE]

\* The function fn is applied to the drawn input and yields result.
Apply(fn, result) ==
    /\ pc = "select"
    /\ call.fn = fn
    /\ ~call.done
    /\ call' = [call EXCEPT !.out = result, !.done = TRUE]
    /\ UNCHANGED <<pc, image_ready>>
    /\ UNCHANGED setupVars
    /\ UNCHANGED gpuVars
    /\ UNCHANGED loopVars

Apply_is_device_suitable ==
    Apply("is_device_suitable", IsDeviceSuitable(call.in))

Apply_pick_physical_device ==
    Apply("pick_physical_device", PickPhysicalDevice(call.in))

Apply_create_instance ==
    Apply("create_instance", CreateInstance(call.in))

Apply_create_logical_device ==
    Apply("create_logical_device", CreateLogicalDevice(call.in))

Apply_image_count ==
    Apply("create_swapchain.image_count", SwapchainImageCount(call.in))

Apply_choose_swap_extent ==
    Apply("choose_swap_extent", ChooseSwapExtent(call.in))

Apply_choose_swap_surface_format ==
    Apply("choose_swap_surface_format", ChooseSwapSurfaceFormat(call.in))

Apply_choose_swap_present_mode ==
    Apply("choose_swap_present_mode", ChooseSwapPresentMode(call.in))

Apply_image_sharing_mode ==
    Apply("create_swapchain.image_sharing_mode", ImageSharingMode(call.in))

Apply_create_shader_module ==
    Apply("create_shader_module", CreateShaderModule(call.in))

Apply_new_device ==
    Apply("new.device", NewDevice(call.in))

Apply_find_queue_families ==
    Apply("find_queue_families", FindQueueFamilies(call.in))

SelectInit ==
    /\ pc = "select"
    /\ NothingCreated
    /\ \/ \E d \in PhysicalDevices : call = Input("is_device_suitable", d)
       \/ \E ds \in SeqsUpTo(DeviceSamples, MaxDevices) :
             call = Input("pick_physical_device", ds)
       \/ \E x \in InstanceInputs : call = Input("create_instance", x)
       \/ \E x \in QueueFamilyIndices : call = Input("create_logical_device", x)
       \/ \E x \in ImageCountInputs : call = Input("create_swapchain.image_count", x)
       \/ \E x \in ExtentInputs : call = Input("choose_swap_extent", x)
       \/ \E x \in SeqsUpTo(SurfaceFormats, MaxChoices) :
             call = Input("choose_swap_surface_format", x)
       \/ \E x \in SeqsUpTo(PresentModes, MaxChoices) :
             call = Input("choose_swap_present_mode", x)
       \/ \E x \in {q \in QueueFamilyIndices : is_complete(q)} :
             call = Input("create_swapchain.image_sharing_mode", x)
       \/ \E x \in ShaderFiles : call = Input("create_shader_module", x)
       \/ \E ds \in SeqsUpTo(DeviceSamples, MaxDevices) :
             call = Input("new.device", ds)
       \/ \E fs \in SeqsUpTo(QueueFamilies, MaxFamilies) :
             call = Input("find_queue_families", [families |-> fs])

SelectNext ==
    \/ Apply_is_device_suitable
    \/ Apply_pick_physical_device
    \/ Apply_create_instance
    \/ Apply_create_logical_device
    \/ Apply_image_count
    \/ Apply_choose_swap_extent
    \/ Apply_choose_swap_surface_format
    \/ Apply_choose_swap_present_mode
    \/ Apply_image_sharing_mode
    \/ Apply_create_shader_module
    \/ Apply_new_device
    \/ Apply_find_queue_families

SelectSpec == SelectInit /\ [][SelectNext]_vars

(***************************************************************************)
(* Properties                                                               *)
(***************************************************************************)
DropPcs == {"drop_debug", "drop_sync", "drop_framebuffers", "drop_image_views",
            "drop_pipeline", "drop_command_pool", "drop_pipeline_layout",
            "drop_render_pass", "drop_device", "drop_surface", "drop_swapchain",
            "drop_instance", "dropped"}

\* C1: in every draw_frame, a slot fence that is reset was waited on earlier
\* in the same draw_frame, and it is signaled (no submission owns it) at the
\* moment it is about to be reset.
C1_FenceWaitedBeforeReset ==
    /\ \A p \in DOMAIN calls :
         calls[p].op = "reset_fences" =>
            \E q \in 1 .. (p - 1) :
               calls[q] = Call("wait_for_fences", calls[p].arg)
    /\ pc = "submit" =>
         /\ fence[current_frame]
         /\ \A i \in DOMAIN graphics_queue :
               graphics_queue[i].fence # current_frame

\* Slot 0 is reused: its fence has been waited on and reset a second time.
C1_Witness ==
    /\ pc = "present"
    /\ ticks = MAX_FRAMES_IN_FLIGHT + 1
    /\ current_frame = 0
    /\ \E p \in DOMAIN calls : calls[p] = Call("reset_fences", 0)

\* C2: when draw_frame is about to submit command_buffers[image_index], no
\* earlier submission of that command buffer is pending, and no two pending
\* submissions render into the same image.
C2_NoPendingUseOfImage ==
    /\ pc = "submit" =>
         \A i \in DOMAIN graphics_queue : graphics_queue[i].image # image_index
    /\ \A i, j \in DOMAIN graphics_queue :
         i # j => graphics_queue[i].image # graphics_queue[j].image

\* The image about to be rendered was last rendered by the other slot, and
\* that slot's later work may still be pending.
C2_Witness ==
    /\ pc = "submit"
    /\ images_in_flight[image_index] \notin {Null, current_frame}
    /\ ticks > MAX_FRAMES_IN_FLIGHT

\* C3: at most MAX_FRAMES_IN_FLIGHT submissions of the graphics queue are
\* submitted and not yet completed.
C3_BoundedInFlight == Len(graphics_queue) <= MAX_FRAMES_IN_FLIGHT

\* MAX_FRAMES_IN_FLIGHT submissions are pending at once.
C3_Witness == Len(graphics_queue) = MAX_FRAMES_IN_FLIGHT

\* C4: when the slot's image_available semaphore is passed to acquire and its
\* render_finished semaphore to submit, no queued operation (a pending
\* submission, an outstanding acquire, a present request not yet executed)
\* still waits on or will signal that semaphore.
C4_SemaphoresNotReused ==
    LET Unreferenced(s) ==
           /\ \A a \in acquires : a.sem # s
           /\ \A i \in DOMAIN graphics_queue :
                 graphics_queue[i].wait # s /\ graphics_queue[i].signal # s
           /\ \A i \in DOMAIN present_queue : present_queue[i].wait # s
    IN  /\ pc = "acquire" => Unreferenced(Obj("image_available", current_frame))
        /\ pc = "submit" => Unreferenced(Obj("render_finished", current_frame))

\* The slot of a draw_frame call, while every earlier call returned Ok.
SlotOfTick(t) == (t - 1) % MAX_FRAMES_IN_FLIGHT

\* C5: within a draw_frame the calls are acquire, submit, present in this
\* order; a submission waits on its slot's image_available semaphore and is
\* not executed before the acquire of its tick has signaled it; a present
\* request waits on its slot's render_finished semaphore and is not executed
\* before the submission of its tick has completed.
C5_AcquireSubmitPresent ==
    /\ LET ops == SelectSeq(calls, LAMBDA c : c.op \in {"acquire_next_image",
                                                       "queue_submit",
                                                       "queue_present"})
           order == <<"acquire_next_image", "queue_submit", "queue_present">>
       IN  /\ Len(ops) <= 3
           /\ \A p \in DOMAIN ops : ops[p].op = order[p]
    /\ \A i \in DOMAIN graphics_queue :
         LET s == graphics_queue[i]
         IN  /\ s.wait = Obj("image_available", SlotOfTick(s.tick))
             /\ s.signal = Obj("render_finished", SlotOfTick(s.tick))
    /\ \A i \in DOMAIN present_queue :
         present_queue[i].wait =
            Obj("render_finished", SlotOfTick(present_queue[i].tick))
    /\ \A a \in acquires : a.tick \notin rendered
    /\ presented \subseteq rendered

\* A present request has executed after the rendering of its tick, while a
\* later submission is still pending.
C5_Witness ==
    /\ presented # {}
    /\ graphics_queue # <<>>
    /\ pc = "run"

\* C6: current_frame starts at 0, stays in [0, MAX_FRAMES_IN_FLIGHT) and is
\* the number of successful draw_frame calls modulo MAX_FRAMES_IN_FLIGHT.
C6_SlotIndex ==
    /\ current_frame \in Slots
    /\ current_frame = completed % MAX_FRAMES_IN_FLIGHT
    /\ completed = 0 => current_frame = 0

\* After exactly MAX_FRAMES_IN_FLIGHT successful calls the index is 0 again.
C6_Witness == completed = MAX_FRAMES_IN_FLIGHT /\ current_frame = 0

\* C7: every slot fence is signaled from its creation until the first reset,
\* so the first wait on each slot's fence does not block, and a teardown
\* that starts before any draw_frame finds the device idle and nothing to
\* wait for.
C7_FencesCreatedSignaled ==
    /\ (pc \notin SetupPcs /\ pc # "setup_failed") =>
          \A k \in Slots : (ticks <= k \/ (ticks = k + 1 /\ pc = "wait_fence"))
                              => fence[k]
    /\ (pc = "wait_fence" /\ ticks <= MAX_FRAMES_IN_FLIGHT) => fence[current_frame]
    /\ (pc = "drop_wait" /\ ticks = 0) => DeviceIdle

\* Teardown after zero draw_frame calls has run to its end.
C7_Witness == pc = "dropped" /\ ticks = 0 /\ \A k \in Slots : fence[k]

\* C8: while drop destroys objects (from the first destroy call on), no
\* submission and no present request is pending.
C8_IdleBeforeDestroy ==
    (pc \in DropPcs \/ destroyed # <<>>) => DeviceIdle

\* Objects are being destroyed after both slots have been used.
C8_Witness ==
    /\ destroyed # <<>>
    /\ completed >= MAX_FRAMES_IN_FLIGHT
    /\ rendered # {}

\* C9: drop destroys the objects in the exact reverse of the order in which
\* new created them.
C9_ReverseOfCreation == pc = "dropped" => destroyed = Reverse(created)

\* The sequence of object groups of the teardown, as the spec lists it.
TeardownOrder ==
    <<"debug_messenger", "sync", "framebuffer", "image_view", "pipeline",
      "command_pool", "pipeline_layout", "render_pass", "device", "surface",
      "swapchain", "instance">>

GroupOf(o) ==
    IF o.kind \in {"image_available", "render_finished", "fence"}
    THEN "sync" ELSE o.kind

\* The groups of a sequence of handles, runs of one group counted once.
RECURSIVE Groups(_)
Groups(s) ==
    IF s = <<>> THEN <<>>
    ELSE LET rest == Groups(Tail(s))
             g == GroupOf(Head(s))
         IN  IF rest # <<>> /\ Head(rest) = g THEN rest ELSE <<g>> \o rest

\* C10: drop destroys debug messenger, per-slot semaphores and fences,
\* framebuffers, image views, pipeline, command pool, pipeline layout, render
\* pass, device, surface, swapchain, instance, in this sequence, and each
\* object exactly once.
C10_TeardownSequence ==
    LET g == Groups(destroyed)
    IN  /\ Len(g) <= Len(TeardownOrder)
        /\ \A p \in DOMAIN g : g[p] = TeardownOrder[p]
        /\ \A p, q \in DOMAIN destroyed : p # q => destroyed[p] # destroyed[q]
        /\ Range(destroyed) \subseteq Range(created)
        /\ pc = "dropped" =>
              /\ g = TeardownOrder
              /\ Range(destroyed) = Range(created)

\* Teardown has run to its end after the frame loop rendered frames.
C10_Witness == pc = "dropped" /\ completed >= 1 /\ Len(destroyed) = Len(created)

\* The steps by which draw_frame goes on without an error.
DrawFrameStep ==
    \/ WaitForSlotFence
    \/ AcquireNextImage
    \/ WaitForImageFence
    \/ SubmitFrame
    \/ PresentFrame

\* The control thread is inside draw_frame and its current call cannot
\* return successfully in this state.
Blocked ==
    /\ pc \in {"wait_fence", "acquire", "wait_image", "submit", "present"}
    /\ ~ ENABLED DrawFrameStep

\* C11 (as stated): draw_frame can block only at the wait on the slot fence
\* and at the wait on images_in_flight[image_index].
C11_TwoBlockingPoints == Blocked => pc \in {"wait_fence", "wait_image"}

\* C11 (amended): draw_frame can block only at the wait on the slot fence, at
\* acquire_next_image and at the wait on images_in_flight[image_index];
\* reset_fences, queue_submit and queue_present never block.
C11_ThreeBlockingPoints ==
    Blocked => pc \in {"wait_fence", "acquire", "wait_image"}

\* draw_frame is blocked in acquire_next_image although the slot fence was
\* signaled.
C11_Witness == Blocked /\ pc = "acquire" /\ fence[current_frame]

\* draw_frame is blocked in one of the two fence waits.
C11_BlockedInSlotWait == Blocked /\ pc = "wait_fence"
C11_BlockedInImageWait == Blocked /\ pc = "wait_image"

Returned(fn) == call.fn = fn /\ call.done

\* C12: pick_physical_device returns the first device, in enumeration order,
\* that is_device_suitable accepts, and fails with the no-suitable-device
\* error exactly when no enumerated device is suitable.
C12_FirstSuitableDevice ==
    Returned("pick_physical_device") =>
       LET devices == call.in
           suitable == {i \in DOMAIN devices : IsDeviceSuitable(devices[i])}
       IN  /\ call.out.ok <=> suitable # {}
           /\ call.out.ok =>
                 /\ call.out.device \in suitable
                 /\ \A j \in suitable : call.out.device <= j
           /\ ~call.out.ok => call.out.err = "Failed to find suitable device"

\* The enumeration [unsuitable, unsuitable, suitable, suitable] yields the
\* third device.
C12_Witness ==
    /\ Returned("pick_physical_device")
    /\ Len(call.in) = 4
    /\ ~IsDeviceSuitable(call.in[1])
    /\ ~IsDeviceSuitable(call.in[2])
    /\ IsDeviceSuitable(call.in[3])
    /\ IsDeviceSuitable(call.in[4])
    /\ call.out.ok
    /\ call.out.device = 3

\* C13: a device is suitable exactly when some family has the graphics flag,
\* some family supports the surface, every required device extension is
\* listed, and the format list and the present-mode list are both non-empty.
C13_Suitability ==
    Returned("is_device_suitable") =>
       LET d == call.in
       IN  call.out <=>
              /\ \E i \in DOMAIN d.families : d.families[i].graphics
              /\ \E i \in DOMAIN d.families : d.families[i].surface
              /\ DEVICE_EXTENSIONS \subseteq Range(d.extensions)
              /\ d.formats # <<>>
              /\ d.present_modes # <<>>

\* A device whose graphics family and present family differ is accepted.
C13_Witness ==
    /\ Returned("is_device_suitable")
    /\ call.out
    /\ Len(call.in.families) = 2
    /\ ~call.in.families[1].surface
    /\ ~call.in.families[2].graphics

\* C14: instance negotiation fails with a configuration error exactly when a
\* required extension or a required layer is missing from what the loader
\* lists; the error names a missing item; otherwise the checks pass.
C14_NegotiationFailsIffMissing ==
    Returned("create_instance") =>
       LET in == call.in
           required_extensions ==
               Range(in.window_extensions) \cup
                  (IF in.enable_validation_layer THEN {"VK_EXT_debug_utils"} ELSE {})
           required_layers ==
               IF in.enable_validation_layer THEN Range(VALIDATION_LAYERS) ELSE {}
           missing_extensions == required_extensions \ Range(in.supported)
           missing_layers == required_layers \ Range(in.available_layers)
       IN  /\ ~call.out.ok <=> (missing_extensions \cup missing_layers) # {}
           /\ ~call.out.ok =>
                 \/ /\ call.out.err = "Required extension is unsupported"
                    /\ call.out.name \in missing_extensions
                 \/ /\ call.out.err = "Required layer is unsupported"
                    /\ call.out.name \in missing_layers

\* Every required extension is supported and only the validation layer is
\* missing: the negotiation fails naming the layer.
C14_Witness ==
    /\ Returned("create_instance")
    /\ call.in.enable_validation_layer
    /\ InstanceExtensionNames \subseteq Range(call.in.supported)
    /\ "VK_LAYER_KHRONOS_validation" \notin Range(call.in.available_layers)
    /\ ~call.out.ok
    /\ call.out.name = "VK_LAYER_KHRONOS_validation"

C14_PassesWhenAllPresent ==
    /\ Returned("create_instance")
    /\ call.in.enable_validation_layer
    /\ call.out.ok

\* C15: create_logical_device requests exactly one queue-creation entry per
\* distinct family index among {graphics family, present family}.
C15_OneEntryPerUniqueFamily ==
    (Returned("create_logical_device") /\ call.out.ok) =>
       LET infos == call.out.queue_create_info
           unique == {call.in.graphics_family, call.in.presentation_family}
       IN  /\ {infos[i].queue_family_index : i \in DOMAIN infos} = unique
           /\ Len(infos) = Cardinality(unique)

\* What C16 states for capabilities min, max: min + 1, reduced to max only
\* when max > 0 and the sum exceeds it.
C16_Stated(min, max) == IF max > 0 /\ min + 1 > max THEN max ELSE min + 1

\* C16 as stated: for all unsigned capability values the requested image
\* count is min + 1, reduced to max only when max > 0 and the sum exceeds it,
\* and lies in [min, max] when max > 0.
C16_ImageCountAllValues ==
    Returned("create_swapchain.image_count") =>
       LET min == call.in.min_image_count
           max == call.in.max_image_count
       IN  /\ ~call.out.panic
           /\ call.out.image_count = C16_Stated(min, max)
           /\ max > 0 => min <= call.out.image_count /\ call.out.image_count <= max

\* C16 amended: as stated whenever min < u32::MAX and max is 0 or at least
\* min; with 0 < max < min the count is max; with min = u32::MAX the sum
\* overflows: a panic with overflow checks, otherwise the count is 0.
C16_ImageCount ==
    Returned("create_swapchain.image_count") =>
       LET min == call.in.min_image_count
           max == call.in.max_image_count
       IN  /\ min < UMax =>
                 /\ ~call.out.panic
                 /\ call.out.image_count = C16_Stated(min, max)
                 /\ (max > 0 /\ max >= min) =>
                       min <= call.out.image_count /\ call.out.image_count <= max
                 /\ (max > 0 /\ max < min) => call.out.image_count = max
                 /\ max = 0 => call.out.image_count = min + 1
           /\ min = UMax =>
                 /\ call.out.panic <=> call.in.overflow_checks
                 /\ ~call.out.panic => call.out.image_count = 0

\* min = 2, max = 0: three images, uncapped.
C16_Witness ==
    /\ Returned("create_swapchain.image_count")
    /\ call.in.min_image_count = 2
    /\ call.in.max_image_count = 0
    /\ call.out = [panic |-> FALSE, image_count |-> 3]

\* min = 2, max = 3: three images.
C16_WitnessCapped ==
    /\ Returned("create_swapchain.image_count")
    /\ call.in.min_image_count = 2
    /\ call.in.max_image_count = 3
    /\ call.out = [panic |-> FALSE, image_count |-> 3]

\* C17: a concrete currentExtent is returned unchanged whatever the window
\* size; with the special extent the result is the window size with width
\* and height each clamped into [minImageExtent, maxImageExtent].
C17_Extent ==
    Returned("choose_swap_extent") =>
       LET in == call.in
           Clamped(v, lo, hi, r) ==
               /\ lo <= r /\ r <= hi
               /\ (lo <= v /\ v <= hi) => r = v
               /\ v < lo => r = lo
               /\ v > hi => r = hi
       IN  IF in.current_extent # SpecialExtent
           THEN call.out = in.current_extent
           ELSE /\ Clamped(in.window_size.width, in.min_image_extent.width,
                           in.max_image_extent.width, call.out.width)
                /\ Clamped(in.window_size.height, in.min_image_extent.height,
                           in.max_image_extent.height, call.out.height)

\* The special extent with a window wider than the maximum and lower than
\* the minimum: both dimensions are clamped.
C17_Witness ==
    /\ Returned("choose_swap_extent")
    /\ call.in.current_extent = SpecialExtent
    /\ call.in.window_size.width > call.in.max_image_extent.width
    /\ call.in.window_size.height < call.in.min_image_extent.height
    /\ call.out = Extent2D(call.in.max_image_extent.width,
                           call.in.min_image_extent.height)

\* A concrete extent that differs from the window size is returned as is.
C17_WitnessConcrete ==
    /\ Returned("choose_swap_extent")
    /\ call.in.current_extent # SpecialExtent
    /\ call.in.current_extent # call.in.window_size
    /\ call.out = call.in.current_extent

PreferredFormat == [format |-> "B8G8R8A8_SRGB", color_space |-> "SRGB_NONLINEAR"]

\* C18: the (B8G8R8A8_SRGB, SRGB_NONLINEAR) entry is returned whenever it
\* occurs anywhere in the list; otherwise element 0 of the list is.
C18_PreferredFormatOrFirst ==
    (Returned("choose_swap_surface_format") /\ call.in # <<>>) =>
       /\ ~call.out.panic
       /\ IF PreferredFormat \in Range(call.in)
          THEN call.out.format = PreferredFormat
          ELSE call.out.format = call.in[1] /\ call.out.position = 1

\* The preferred entry is last in a list of three and is the one returned.
C18_Witness ==
    /\ Returned("choose_swap_surface_format")
    /\ Len(call.in) = 3
    /\ call.in[1].format = "B8G8R8A8_SRGB"
    /\ call.in[1].color_space # "SRGB_NONLINEAR"
    /\ call.in[2] # PreferredFormat
    /\ call.in[3] = PreferredFormat
    /\ call.out.position = 3

\* C19: MAILBOX is returned whenever it occurs in the list; otherwise FIFO,
\* also when the list holds modes that are neither.
C19_MailboxOrFifo ==
    Returned("choose_swap_present_mode") =>
       call.out = IF "MAILBOX" \in Range(call.in) THEN "MAILBOX" ELSE "FIFO"

\* A list holding only IMMEDIATE and FIFO_RELAXED yields FIFO.
C19_Witness ==
    /\ Returned("choose_swap_present_mode")
    /\ call.in = <<"IMMEDIATE", "FIFO_RELAXED">>
    /\ call.out = "FIFO"

\* MAILBOX after two other modes is found.
C19_WitnessMailbox ==
    /\ Returned("choose_swap_present_mode")
    /\ call.in = <<"FIFO", "IMMEDIATE", "MAILBOX">>
    /\ call.out = "MAILBOX"

\* C20: the swapchain is created CONCURRENT, listing both family indices,
\* exactly when the graphics and the present family differ; otherwise
\* EXCLUSIVE with an empty index list.
C20_SharingMode ==
    Returned("create_swapchain.image_sharing_mode") =>
       LET g == call.in.graphics_family
           p == call.in.presentation_family
       IN  /\ call.out.image_sharing_mode = "CONCURRENT" <=> g # p
           /\ g # p => call.out.queue_family_indices = <<g, p>>
           /\ g = p => /\ call.out.image_sharing_mode = "EXCLUSIVE"
                       /\ call.out.queue_family_indices = <<>>

\* Graphics family 1 and present family 0: CONCURRENT over <<1, 0>>.
C20_Witness ==
    /\ Returned("create_swapchain.image_sharing_mode")
    /\ call.in.graphics_family = 1
    /\ call.in.presentation_family = 0
    /\ call.out = [image_sharing_mode |-> "CONCURRENT",
                   queue_family_indices |-> <<1, 0>>]

\* One family for both roles: EXCLUSIVE.
C20_WitnessExclusive ==
    /\ Returned("create_swapchain.image_sharing_mode")
    /\ call.in.graphics_family = call.in.presentation_family
    /\ call.out.image_sharing_mode = "EXCLUSIVE"

\* C21: loading a shader blob fails when the file is missing or when its
\* length is not a multiple of 4; only a blob whose length is a multiple of
\* 4 is parsed into little-endian words and passed to module creation.
C21_ShaderLoadError ==
    Returned("create_shader_module") =>
       LET file == call.in
           malformed == Len(file.bytes) % 4 # 0
       IN  /\ (~file.exists \/ malformed) => ~call.out.ok
           /\ call.out.ok =>
                 /\ Len(call.out.code) * 4 = Len(file.bytes)
                 /\ \A k \in DOMAIN call.out.code :
                       call.out.code[k] =
                           file.bytes[4 * k - 3] + 256 * file.bytes[4 * k - 2]
                           + 65536 * file.bytes[4 * k - 1]
                           + 16777216 * file.bytes[4 * k]

\* What the code does with a file of five bytes: the first four become one
\* word, the fifth is dropped, and the word is passed on.
C21_TruncatedBlobPassedOn ==
    /\ Returned("create_shader_module")
    /\ call.in.exists
    /\ call.in.bytes = <<1, 0, 0, 127, 1>>
    /\ call.out = [ok |-> TRUE, err |-> "", code |-> <<2130706433>>]

\* C22: every setup-phase error is fatal: once a step of new() has failed,
\* no later setup step executes, nothing is retried, the application object
\* is not constructed and no frame tick runs.
C22_SetupErrorFatal ==
    [][pc = "setup_failed" =>
          /\ pc' = "setup_failed"
          /\ ticks = 0
          /\ Obj("fence", 0) \notin Range(created)
          /\ UNCHANGED setupVars
          /\ UNCHANGED loopVars]_vars

\* create_render_pass has failed, and the presentation engine has gone on
\* since.
C22_Witness ==
    /\ pc = "setup_failed"
    /\ Obj("image_view", 0) \in Range(created)
    /\ Obj("render_pass", 0) \notin Range(created)
    /\ image_ready

\* new() has run to its end: every handle of a VulkanApp value exists.
FullyConstructed ==
    /\ \A kind \in {"instance", "surface", "debug_messenger", "device",
                    "swapchain", "render_pass", "pipeline_layout", "pipeline",
                    "command_pool"} : Obj(kind, 0) \in Range(created)
    /\ \A k \in Slots : Range(SyncObjectsOf(k)) \subseteq Range(created)

\* C23: a setup step that fails after earlier steps have created objects
\* leaves them undestroyed: teardown runs only for a fully constructed
\* application object.
C23_FailedSetupLeaks ==
    /\ pc = "setup_failed" => destroyed = <<>>
    /\ (pc \in DropPcs \cup {"drop_wait", "drop_panicked"} \/ destroyed # <<>>) =>
          FullyConstructed

\* create_sync_objects has failed: everything up to the command pool exists
\* and nothing is destroyed.
C23_Witness ==
    /\ pc = "setup_failed"
    /\ Obj("command_pool", 0) \in Range(created)
    /\ command_buffers = swapchain_images
    /\ Len(created) >= 12
    /\ destroyed = <<>>

\* A draw_frame call has returned an error.
TickFailed ==
    /\ pc \in DropPcs \cup {"panicked", "drop_wait", "drop_panicked"}
    /\ completed < ticks

\* C24: a per-frame error is fatal: once a step of a tick has returned an
\* error, the frame loop starts no other tick and retries no step.
C24_FrameErrorFatal ==
    [][TickFailed =>
          /\ TickFailed'
          /\ pc' \notin {"run", "wait_fence", "acquire", "wait_image", "submit",
                         "present"}
          /\ UNCHANGED <<ticks, completed, calls, current_frame, images_in_flight>>
          /\ Len(graphics_queue') <= Len(graphics_queue)
          /\ Len(present_queue') <= Len(present_queue)]_vars

\* The third tick failed at queue_submit and the panic has unwound into drop.
C24_Witness ==
    /\ TickFailed
    /\ pc = "drop_sync"
    /\ ticks = 3
    /\ completed = 2
    /\ calls # <<>>
    /\ calls[Len(calls)].op = "reset_fences"

CountOf(kind) == Cardinality({o \in Range(created) : o.kind = kind})

\* C25: after setup there are as many image views, framebuffers, command
\* buffers and images_in_flight entries as swapchain images, every
\* images_in_flight entry is null at first, and exactly MAX_FRAMES_IN_FLIGHT
\* frame slots exist.
C25_SizesAfterSetup ==
    pc \in {"run", "wait_fence", "acquire", "wait_image", "submit", "present",
            "panicked", "drop_wait"} =>
       /\ CountOf("image_view") = swapchain_images
       /\ CountOf("framebuffer") = swapchain_images
       /\ command_buffers = swapchain_images
       /\ DOMAIN images_in_flight = 0 .. (swapchain_images - 1)
       /\ ticks = 0 => \A i \in DOMAIN images_in_flight : images_in_flight[i] = Null
       /\ \A kind \in {"image_available", "render_finished", "fence"} :
             /\ CountOf(kind) = MAX_FRAMES_IN_FLIGHT
             /\ \A k \in Slots : Obj(kind, k) \in Range(created)
       /\ DOMAIN fence = Slots

\* Setup has ended for a swapchain of three images.
C25_Witness ==
    /\ pc = "run"
    /\ ticks = 0
    /\ swapchain_images = 3
    /\ command_buffers = 3

\* C26: create_logical_device returns an error and creates no device when
\* the graphics or the present family index is unset, and whenever new()
\* reaches device creation both indices are set.
C26_DeviceNeedsCompleteIndices ==
    /\ Returned("create_logical_device") =>
          /\ call.out.ok <=>
                (call.in.graphics_family # None /\ call.in.presentation_family # None)
          /\ ~call.out.ok => call.out.queue_create_info = <<>>
    /\ (Returned("new.device") /\ call.out.reached) =>
          /\ call.out.queue_family_indices.graphics_family # None
          /\ call.out.queue_family_indices.presentation_family # None
          /\ call.out.logical_device.ok

\* new() picks the second device, whose graphics and present families
\* differ, and creates the logical device.
C26_Witness ==
    /\ Returned("new.device")
    /\ Len(call.in) >= 2
    /\ ~IsDeviceSuitable(call.in[1])
    /\ call.out.ok
    /\ call.out.queue_family_indices =
          [graphics_family |-> 0, presentation_family |-> 1]

\* create_logical_device refuses indices without a present family.
C26_WitnessRefused ==
    /\ Returned("create_logical_device")
    /\ call.in = [graphics_family |-> 0, presentation_family |-> None]
    /\ ~call.out.ok
    /\ call.out.err = "incomplete queue family support"

\* The kind of object each kind of handle is created from: the create call
\* takes the instance, or the logical device.
ParentOf(kind) ==
    CASE kind \in {"surface", "debug_messenger", "device"} -> "instance"
      [] kind \in {"swapchain", "image_view", "render_pass", "pipeline_layout",
                   "pipeline", "framebuffer", "command_pool", "image_available",
                   "render_finished", "fence"} -> "device"
      [] OTHER -> "none"

\* C27: teardown never destroys an object after the object it was created
\* from: every object created from the logical device (the swapchain
\* included) is destroyed before the device, and every object created from
\* the instance before the instance.
C27_ChildrenBeforeParent ==
    \A i \in DOMAIN destroyed : \A j \in DOMAIN destroyed :
       ParentOf(destroyed[j].kind) = destroyed[i].kind => j < i

\* C28: a tick never waits on a fence that is unsignaled with no pending
\* submission that will signal it, whatever image index acquire returned;
\* when the image's fence is the current slot's own fence it is signaled.
C28_WaitedFenceWillSignal ==
    LET Pending(f) == \E i \in DOMAIN graphics_queue : graphics_queue[i].fence = f
    IN  /\ pc = "wait_fence" => (fence[current_frame] \/ Pending(current_frame))
        /\ pc = "wait_image" =>
              LET f == images_in_flight[image_index]
              IN  /\ f # Null => (fence[f] \/ Pending(f))
                  /\ f = current_frame => fence[f]

\* acquire returned an image whose images_in_flight entry is the fence of
\* the current slot.
C28_Witness ==
    /\ pc = "wait_image"
    /\ images_in_flight[image_index] = current_frame

\* The tick waits on the fence of another slot that is still unsignaled.
C28_WitnessOtherSlot ==
    /\ pc = "wait_image"
    /\ images_in_flight[image_index] \notin {Null, current_frame}
    /\ ~fence[images_in_flight[image_index]]

\* C29: each images_in_flight entry is null or the fence of a frame slot; a
\* tick writes only the entry of the image index its acquire returned,
\* setting it to the fence of the current slot; no entry goes back to null.
C29_ImagesInFlightWrites ==
    [][/\ \A i \in DOMAIN images_in_flight' :
             images_in_flight'[i] \in {Null} \cup Slots
       /\ (pc # "create_sync_objects" /\ images_in_flight' # images_in_flight) =>
             /\ pc = "submit"
             /\ image_index \in Images
             /\ calls # <<>>
             /\ \E p \in DOMAIN calls : calls[p].op = "acquire_next_image"
             /\ images_in_flight' =
                   [images_in_flight EXCEPT ![image_index] = current_frame]
       /\ \A i \in DOMAIN images_in_flight :
             images_in_flight[i] # Null =>
                i \in DOMAIN images_in_flight' /\ images_in_flight'[i] # Null]_vars

\* The third tick has overwritten the entry of its image, which held the
\* fence of the other slot, while another image still holds that fence.
C29_Witness ==
    /\ pc = "present"
    /\ ticks = 3
    /\ image_index = 2
    /\ images_in_flight[2] = 0
    /\ images_in_flight[0] = 1
    /\ images_in_flight[1] = Null

C31_HighestQualifyingFamily ==
    Returned("find_queue_families") =>
       LET families == call.in.families
           graphics == {i \in 0 .. (Len(families) - 1) : families[i + 1].graphics}
           surface == {i \in 0 .. (Len(families) - 1) : families[i + 1].surface}
           Highest(S, r) ==
               IF S = {} THEN r = None
               ELSE r \in S /\ \A i \in S : i <= r
       IN  /\ Highest(graphics, call.out.graphics_family)
           /\ Highest(surface, call.out.presentation_family)

\* Family 0 supports both roles and family 1 graphics only: the chosen
\* indices differ although family 0 could serve both.
C31_Witness ==
    /\ Returned("find_queue_families")
    /\ call.in.families = <<[graphics |-> TRUE, surface |-> TRUE],
                            [graphics |-> TRUE, surface |-> FALSE]>>
    /\ call.out = [graphics_family |-> 1, presentation_family |-> 0]

\* No family supports the surface: the present family stays unset.
C31_WitnessUnset ==
    /\ Returned("find_queue_families")
    /\ Len(call.in.families) = 2
    /\ call.out.graphics_family = 1
    /\ call.out.presentation_family = None
====
